---- MODULE Spec2Model ----
(***************************************************************************)
(* Lead scoring backend: rule scorer, intent classifier, score composer,   *)
(* pipeline driver, in-memory storage and the POST /score route.           *)
(*                                                                         *)
(* JavaScript strings are TLC strings; Len, SubSeq and \o act on them.     *)
(* A JavaScript object is a record; a property the object does not have    *)
(* (undefined) is a field the record does not have.                        *)
(***************************************************************************)
EXTENDS Integers, Sequences, FiniteSets, TLC

VARIABLES
    storage,      \* the Storage singleton: [offer, leads, scoredLeads]
    apiKey,       \* process.env.OPENAI_API_KEY is set
    runs,         \* the POST /score requests: each one's locals and position,
                  \* with what its calls did (answers) and the leads for which
                  \* it called the external service (calls)
    completed,    \* history: what the most recently completed run read and scored
    writes,       \* history: how often an offer or a lead list was stored
    fnIn,         \* unit harness: the arguments of the function under test
    fnOut         \* unit harness: its result

vars == <<storage, apiKey, runs, completed, writes, fnIn, fnOut>>

(***************************************************************************)
(* Bounds of the model.                                                    *)
(***************************************************************************)
MaxRoleWords == 2      \* words per role in the scoreRole harness
MaxUseCases == 2       \* ideal use cases per offer in the scoreIndustry harness
MaxLabelWords == 2     \* words per label in the mapIntentToScore harness
MaxLeads == 2          \* rows per upload
MaxRuns == 2           \* POST /score requests per behaviour
MaxWrites == 3         \* stored offers and lead lists per behaviour
MaxResponseLines == 3  \* lines per response text in the parseAIResponse harness

(***************************************************************************)
(* Strings.                                                                *)
(***************************************************************************)
\* the value of a missing property or argument
Undefined == "<undefined>"

\* JavaScript truthiness of a string-or-undefined value: !x
Falsy(x) == x = Undefined \/ x = ""

\* obj[f]
Get(obj, f) == IF f \in DOMAIN obj THEN obj[f] ELSE Undefined

CharAt(s, i) == SubSeq(s, i, i)

UpperCase == <<"A","B","C","D","E","F","G","H","I","J","K","L","M",
               "N","O","P","Q","R","S","T","U","V","W","X","Y","Z">>
LowerCase == <<"a","b","c","d","e","f","g","h","i","j","k","l","m",
               "n","o","p","q","r","s","t","u","v","w","x","y","z">>

\* the lower-case letter of each upper-case letter, and the reverse
LowerOf ==
    [c \in {UpperCase[i] : i \in 1..26} |->
        LowerCase[CHOOSE i \in 1..26 : UpperCase[i] = c]]
UpperOf ==
    [c \in {LowerCase[i] : i \in 1..26} |->
        UpperCase[CHOOSE i \in 1..26 : LowerCase[i] = c]]

LowerChar(c) == IF c \in DOMAIN LowerOf THEN LowerOf[c] ELSE c

UpperChar(c) == IF c \in DOMAIN UpperOf THEN UpperOf[c] ELSE c

RECURSIVE lowerFrom(_, _)
lowerFrom(s, i) ==
    IF i > Len(s) THEN "" ELSE LowerChar(CharAt(s, i)) \o lowerFrom(s, i + 1)

\* s.toLowerCase()
toLowerCase(s) == lowerFrom(s, 1)

RECURSIVE upperFrom(_, _)
upperFrom(s, i) ==
    IF i > Len(s) THEN "" ELSE UpperChar(CharAt(s, i)) \o upperFrom(s, i + 1)

\* s.toUpperCase()
toUpperCase(s) == upperFrom(s, 1)

\* s.startsWith(p)
startsWith(s, p) == Len(p) <= Len(s) /\ SubSeq(s, 1, Len(p)) = p

\* s.indexOf(k, from), 1-based; 0 when k does not occur
RECURSIVE IndexFrom(_, _, _)
IndexFrom(s, k, from) ==
    IF from + Len(k) - 1 > Len(s) THEN 0
    ELSE IF SubSeq(s, from, from + Len(k) - 1) = k THEN from
    ELSE IndexFrom(s, k, from + 1)

\* s.includes(k)
includes(s, k) == IndexFrom(s, k, 1) # 0

WhiteSpace == {" ", "\t", "\n", "\r"}

RECURSIVE trimStart(_)
trimStart(s) ==
    IF s # "" /\ CharAt(s, 1) \in WhiteSpace THEN trimStart(Tail(s)) ELSE s

RECURSIVE trimEnd(_)
trimEnd(s) ==
    IF s # "" /\ CharAt(s, Len(s)) \in WhiteSpace
    THEN trimEnd(SubSeq(s, 1, Len(s) - 1)) ELSE s

\* s.trim()
trim(s) == trimEnd(trimStart(s))

\* list.some(p)
some(list, p(_)) == \E i \in 1..Len(list) : p(list[i])

\* list.every(p)
every(list, p(_)) == \A i \in 1..Len(list) : p(list[i])

\* the strings made of at most n words of W, concatenated
RECURSIVE WordsUpTo(_, _)
WordsUpTo(W, n) ==
    IF n = 0 THEN {""}
    ELSE LET shorter == WordsUpTo(W, n - 1)
         IN  shorter \cup {s \o w : s \in shorter, w \in W}

\* the sequences of at most n elements of S
RECURSIVE SeqsUpTo(_, _)
SeqsUpTo(S, n) ==
    IF n = 0 THEN {<<>>}
    ELSE LET shorter == SeqsUpTo(S, n - 1)
         IN  shorter \cup {Append(q, x) : q \in shorter, x \in S}

(***************************************************************************)
(* Rule scorer (scoringService).                                           *)
(***************************************************************************)
ROLE_DECISION_MAKER == 20
ROLE_INFLUENCER == 10
ROLE_OTHER == 0
INDUSTRY_EXACT_MATCH == 20
INDUSTRY_ADJACENT == 10
INDUSTRY_NO_MATCH == 0
DATA_COMPLETENESS == 10

DECISION_MAKER_KEYWORDS ==
    <<"ceo", "cto", "cfo", "coo", "president", "founder",
      "owner", "director", "vp", "vice president", "head of",
      "chief", "principal", "partner", "managing">>

INFLUENCER_KEYWORDS ==
    <<"manager", "lead", "senior", "sr.", "coordinator",
      "specialist", "supervisor", "team lead">>

\* a variant that tests the influencer keywords before the decision-maker ones
scoreRole_InfluencerFirst(role) ==
    IF Falsy(role) THEN [score |-> ROLE_OTHER, reason |-> "No role provided"]
    ELSE LET roleLower == toLowerCase(role)
             has(keyword) == includes(roleLower, keyword)
         IN  IF some(INFLUENCER_KEYWORDS, has)
             THEN [score |-> ROLE_INFLUENCER, reason |-> "Influencer role"]
             ELSE IF some(DECISION_MAKER_KEYWORDS, has)
             THEN [score |-> ROLE_DECISION_MAKER, reason |-> "Decision maker role"]
             ELSE [score |-> ROLE_OTHER, reason |-> "Individual contributor role"]

scoreRole(role) ==
    IF Falsy(role) THEN [score |-> ROLE_OTHER, reason |-> "No role provided"]
    ELSE LET roleLower == toLowerCase(role)
             has(keyword) == includes(roleLower, keyword)
         IN  IF some(DECISION_MAKER_KEYWORDS, has)
             THEN [score |-> ROLE_DECISION_MAKER, reason |-> "Decision maker role"]
             ELSE IF some(INFLUENCER_KEYWORDS, has)
             THEN [score |-> ROLE_INFLUENCER, reason |-> "Influencer role"]
             ELSE [score |-> ROLE_OTHER, reason |-> "Individual contributor role"]

ADJACENT_KEYWORDS == <<"saas", "software", "tech", "b2b", "enterprise">>

\* a variant that only tests whether the industry contains the use case
scoreIndustry_OneDirection(leadIndustry, idealUseCases) ==
    IF Falsy(leadIndustry) \/ idealUseCases = Undefined \/ Len(idealUseCases) = 0
    THEN [score |-> INDUSTRY_NO_MATCH, reason |-> "No industry match data"]
    ELSE LET industryLower == toLowerCase(leadIndustry)
             exact(useCase) == includes(industryLower, toLowerCase(useCase))
             adjacent(keyword) ==
                 \/ includes(industryLower, keyword)
                 \/ LET ucHas(uc) == includes(toLowerCase(uc), keyword)
                    IN  some(idealUseCases, ucHas)
         IN  IF some(idealUseCases, exact)
             THEN [score |-> INDUSTRY_EXACT_MATCH, reason |-> "Exact industry match with ICP"]
             ELSE IF some(ADJACENT_KEYWORDS, adjacent)
             THEN [score |-> INDUSTRY_ADJACENT, reason |-> "Adjacent industry match"]
             ELSE [score |-> INDUSTRY_NO_MATCH, reason |-> "No industry match"]

scoreIndustry(leadIndustry, idealUseCases) ==
    IF Falsy(leadIndustry) \/ idealUseCases = Undefined \/ Len(idealUseCases) = 0
    THEN [score |-> INDUSTRY_NO_MATCH, reason |-> "No industry match data"]
    ELSE LET industryLower == toLowerCase(leadIndustry)
             exact(useCase) ==
                 \/ includes(industryLower, toLowerCase(useCase))
                 \/ includes(toLowerCase(useCase), industryLower)
             adjacent(keyword) ==
                 \/ includes(industryLower, keyword)
                 \/ LET ucHas(uc) == includes(toLowerCase(uc), keyword)
                    IN  some(idealUseCases, ucHas)
         IN  IF some(idealUseCases, exact)
             THEN [score |-> INDUSTRY_EXACT_MATCH, reason |-> "Exact industry match with ICP"]
             ELSE IF some(ADJACENT_KEYWORDS, adjacent)
             THEN [score |-> INDUSTRY_ADJACENT, reason |-> "Adjacent industry match"]
             ELSE [score |-> INDUSTRY_NO_MATCH, reason |-> "No industry match"]

COMPLETENESS_FIELDS ==
    <<"name", "role", "company", "industry", "location", "linkedin_bio">>

\* a variant that asks for the fields upload validation requires only
scoreDataCompleteness_RequiredOnly(lead) ==
    LET filled(field) ==
            ~Falsy(Get(lead, field)) /\ Len(trim(Get(lead, field))) > 0
        hasAllFields ==
            every(<<"name", "role", "company", "industry", "location">>, filled)
    IN  [score  |-> IF hasAllFields THEN DATA_COMPLETENESS ELSE 0,
         reason |-> IF hasAllFields THEN "Complete data" ELSE "Incomplete data"]

scoreDataCompleteness(lead) ==
    LET filled(field) ==
            ~Falsy(Get(lead, field)) /\ Len(trim(Get(lead, field))) > 0
        hasAllFields == every(COMPLETENESS_FIELDS, filled)
    IN  [score  |-> IF hasAllFields THEN DATA_COMPLETENESS ELSE 0,
         reason |-> IF hasAllFields THEN "Complete data" ELSE "Incomplete data"]

calculateRuleScore(lead, offer) ==
    LET roleScore == scoreRole(Get(lead, "role"))
        industryScore ==
            scoreIndustry(Get(lead, "industry"), Get(offer, "ideal_use_cases"))
        completenessScore == scoreDataCompleteness(lead)
    IN  [score |-> roleScore.score + industryScore.score + completenessScore.score,
         breakdown |-> [role |-> roleScore,
                        industry |-> industryScore,
                        completeness |-> completenessScore]]

(***************************************************************************)
(* Intent classifier (aiService).                                          *)
(***************************************************************************)
\* s.split("\n")
RECURSIVE splitLines(_)
splitLines(s) ==
    LET nl == IndexFrom(s, "\n", 1)
    IN  IF nl = 0 THEN <<s>>
        ELSE <<SubSeq(s, 1, nl - 1)>> \o splitLines(SubSeq(s, nl + 1, Len(s)))

\* the first position at or after i that holds no white space (\s*)
RECURSIVE skipSpace(_, _)
skipSpace(s, i) ==
    IF i <= Len(s) /\ CharAt(s, i) \in WhiteSpace THEN skipSpace(s, i + 1) ELSE i

INTENT_LABELS == <<"high", "medium", "low">>

\* /intent:\s*(high|medium|low)/i tried at position p of line: the captured
\* group, or "" when the pattern does not match there
intentMatchAt(line, p) ==
    LET lower == toLowerCase(line)
        q == skipSpace(line, p + Len("intent:"))
        rest == SubSeq(lower, q, Len(lower))
        hit(label) == startsWith(rest, label)
    IN  IF startsWith(SubSeq(lower, p, Len(lower)), "intent:") /\ some(INTENT_LABELS, hit)
        THEN LET label == INTENT_LABELS[CHOOSE i \in 1..Len(INTENT_LABELS) :
                              /\ hit(INTENT_LABELS[i])
                              /\ \A j \in 1..(i - 1) : ~hit(INTENT_LABELS[j])]
             IN  SubSeq(line, q, q + Len(label) - 1)
        ELSE ""

\* line.match(/intent:\s*(high|medium|low)/i): the leftmost match's group
RECURSIVE intentMatch(_, _)
intentMatch(line, p) ==
    IF p > Len(line) THEN ""
    ELSE IF intentMatchAt(line, p) # "" THEN intentMatchAt(line, p)
    ELSE intentMatch(line, p + 1)

\* a variant that keeps the label as the response spells it
capitalize_AsWritten(m) == m

\* m.charAt(0).toUpperCase() + m.slice(1).toLowerCase()
capitalize(m) == toUpperCase(CharAt(m, 1)) \o toLowerCase(Tail(m))

\* line.replace(/reasoning:\s*/i, '').trim(), for a line that starts with it
stripReasoning(line) ==
    trim(SubSeq(line, skipSpace(line, Len("reasoning:") + 1), Len(line)))

DEFAULT_INTENT == "Medium"
DEFAULT_REASONING == "Unable to determine fit."

\* the for loop of parseAIResponse from line k on
RECURSIVE parseLines(_, _, _, _)
parseLines(lines, k, intent, reasoning) ==
    IF k > Len(lines) THEN [intent |-> intent, reasoning |-> reasoning]
    ELSE LET line == lines[k]
         IN  IF startsWith(toLowerCase(line), "intent:")
             THEN LET m == intentMatch(line, 1)
                  IN  parseLines(lines, k + 1,
                                 IF m # "" THEN capitalize(m) ELSE intent, reasoning)
             ELSE IF startsWith(toLowerCase(line), "reasoning:")
             THEN parseLines(lines, k + 1, intent, stripReasoning(line))
             ELSE parseLines(lines, k + 1, intent, reasoning)

\* lines.findIndex(l => l.toLowerCase().startsWith('reasoning:')), 1-based, 0 if none
reasoningIndex(lines) ==
    LET isReasoning(i) == startsWith(toLowerCase(lines[i]), "reasoning:")
    IN  IF \E i \in 1..Len(lines) : isReasoning(i)
        THEN CHOOSE i \in 1..Len(lines) :
                 isReasoning(i) /\ \A j \in 1..(i - 1) : ~isReasoning(j)
        ELSE 0

\* a variant that takes a following line of 10 characters too
parseAIResponse_TenOrMore(response) ==
    LET raw == splitLines(response)
        lines == [i \in 1..Len(raw) |-> trim(raw[i])]
        scanned == parseLines(lines, 1, DEFAULT_INTENT, DEFAULT_REASONING)
        idx == reasoningIndex(lines)
        reasoning ==
            IF /\ scanned.reasoning = DEFAULT_REASONING \/ Len(scanned.reasoning) < 10
               /\ idx >= 1 /\ idx + 1 <= Len(lines)
               /\ lines[idx + 1] # "" /\ Len(lines[idx + 1]) >= 10
            THEN lines[idx + 1]
            ELSE scanned.reasoning
    IN  [intent |-> scanned.intent, reasoning |-> reasoning]

parseAIResponse(response) ==
    LET raw == splitLines(response)
        lines == [i \in 1..Len(raw) |-> trim(raw[i])]
        scanned == parseLines(lines, 1, DEFAULT_INTENT, DEFAULT_REASONING)
        idx == reasoningIndex(lines)
        reasoning ==
            IF /\ scanned.reasoning = DEFAULT_REASONING \/ Len(scanned.reasoning) < 10
               /\ idx >= 1 /\ idx + 1 <= Len(lines)
               /\ lines[idx + 1] # "" /\ Len(lines[idx + 1]) > 10
            THEN lines[idx + 1]
            ELSE scanned.reasoning
    IN  [intent |-> scanned.intent, reasoning |-> reasoning]

\* the result of a call that threw
Threw == [threw |-> TRUE]

SENIOR_KEYWORDS == <<"ceo", "cto", "founder", "vp", "director", "head">>
MANAGEMENT_KEYWORDS == <<"manager", "lead">>

\* reasons.join(' and ')
RECURSIVE join(_, _)
join(list, sep) ==
    IF list = <<>> THEN ""
    ELSE IF Len(list) = 1 THEN list[1]
    ELSE list[1] \o sep \o join(Tail(list), sep)

\* a variant that counts a management keyword in a senior role too
fallbackClassification_BothRoles(lead, offer) ==
    IF Get(offer, "ideal_use_cases") = Undefined THEN Threw
    ELSE
    LET roleLower == toLowerCase(IF Falsy(Get(lead, "role")) THEN "" ELSE lead.role)
        roleHas(k) == includes(roleLower, k)
        senior == some(SENIOR_KEYWORDS, roleHas)
        management == some(MANAGEMENT_KEYWORDS, roleHas)
        industryLower ==
            toLowerCase(IF Falsy(Get(lead, "industry")) THEN "" ELSE lead.industry)
        matches(uc) ==
            \/ includes(industryLower, toLowerCase(uc))
            \/ includes(toLowerCase(uc), industryLower)
        hasIndustryMatch == some(offer.ideal_use_cases, matches)
        score == (IF senior THEN 2 ELSE 0) + (IF management THEN 1 ELSE 0)
                 + (IF hasIndustryMatch THEN 2 ELSE 0)
        reasons == (IF senior THEN <<"senior role">>
                    ELSE IF management THEN <<"management role">> ELSE <<>>)
                   \o (IF hasIndustryMatch THEN <<"industry match">> ELSE <<>>)
        intent == IF score >= 3 THEN "High" ELSE IF score >= 1 THEN "Medium" ELSE "Low"
        reasoning ==
            IF Len(reasons) > 0
            THEN "Prospect shows " \o join(reasons, " and ")
                 \o " indicating potential fit."
            ELSE "Limited signals for product fit based on available data."
    IN  [intent |-> intent, reasoning |-> reasoning]

fallbackClassification(lead, offer) ==
    IF Get(offer, "ideal_use_cases") = Undefined THEN Threw
    ELSE
    LET roleLower == toLowerCase(IF Falsy(Get(lead, "role")) THEN "" ELSE lead.role)
        roleHas(k) == includes(roleLower, k)
        senior == some(SENIOR_KEYWORDS, roleHas)
        management == ~senior /\ some(MANAGEMENT_KEYWORDS, roleHas)
        industryLower ==
            toLowerCase(IF Falsy(Get(lead, "industry")) THEN "" ELSE lead.industry)
        matches(uc) ==
            \/ includes(industryLower, toLowerCase(uc))
            \/ includes(toLowerCase(uc), industryLower)
        hasIndustryMatch == some(offer.ideal_use_cases, matches)
        score == (IF senior THEN 2 ELSE IF management THEN 1 ELSE 0)
                 + (IF hasIndustryMatch THEN 2 ELSE 0)
        reasons == (IF senior THEN <<"senior role">>
                    ELSE IF management THEN <<"management role">> ELSE <<>>)
                   \o (IF hasIndustryMatch THEN <<"industry match">> ELSE <<>>)
        intent == IF score >= 3 THEN "High" ELSE IF score >= 1 THEN "Medium" ELSE "Low"
        reasoning ==
            IF Len(reasons) > 0
            THEN "Prospect shows " \o join(reasons, " and ")
                 \o " indicating potential fit."
            ELSE "Limited signals for product fit based on available data."
    IN  [intent |-> intent, reasoning |-> reasoning]

\* buildPrompt throws when it joins a list the offer does not have
buildPromptThrows(offer) ==
    Get(offer, "value_props") = Undefined \/ Get(offer, "ideal_use_cases") = Undefined

\* What openai.chat.completions.create did: it answered with a text
\* ([text |-> s]), or it failed or answered without a text ([error |-> TRUE]).
ApiError == [error |-> TRUE]
ApiText(s) == [text |-> s]
\* no call was made
NoCall == [nocall |-> TRUE]

\* classifyIntent, given whether the credential is set and, for the case that
\* the external call is made, what the call did
classifyIntent(lead, offer, key, answer) ==
    IF ~key THEN fallbackClassification(lead, offer)
    ELSE IF buildPromptThrows(offer) THEN fallbackClassification(lead, offer)
    ELSE IF "text" \in DOMAIN answer THEN parseAIResponse(answer.text)
    ELSE fallbackClassification(lead, offer)

\* classifyIntent makes the external call
callsApi(offer, key) == key /\ ~buildPromptThrows(offer)

(***************************************************************************)
(* Score composer (scoringService).                                        *)
(***************************************************************************)
AI_HIGH == 50
AI_MEDIUM == 30
AI_LOW == 10
HIGH_THRESHOLD == 70
MEDIUM_THRESHOLD == 40

\* a variant that tests the labels in the order low, medium, high
mapIntentToScore_LowFirst(intent) ==
    LET intentLower == toLowerCase(intent)
    IN  IF includes(intentLower, "low") THEN AI_LOW
        ELSE IF includes(intentLower, "medium") THEN AI_MEDIUM
        ELSE IF includes(intentLower, "high") THEN AI_HIGH
        ELSE AI_MEDIUM

mapIntentToScore(intent) ==
    LET intentLower == toLowerCase(intent)
    IN  IF includes(intentLower, "high") THEN AI_HIGH
        ELSE IF includes(intentLower, "medium") THEN AI_MEDIUM
        ELSE IF includes(intentLower, "low") THEN AI_LOW
        ELSE AI_MEDIUM

\* a variant whose Medium band starts above the threshold
determineIntent_Strict(totalScore) ==
    IF totalScore >= HIGH_THRESHOLD THEN "High"
    ELSE IF totalScore > MEDIUM_THRESHOLD THEN "Medium"
    ELSE "Low"

determineIntent(totalScore) ==
    IF totalScore >= HIGH_THRESHOLD THEN "High"
    ELSE IF totalScore >= MEDIUM_THRESHOLD THEN "Medium"
    ELSE "Low"

\* `- ${part.reason} (+${part.score})`
reasonLine(part) == "- " \o part.reason \o " (+" \o ToString(part.score) \o ")"

\* a variant whose score leaves out the rule score
composed_ScoreIsAi(lead, ruleResult, aiResult) ==
    LET aiScore == mapIntentToScore(aiResult.intent)
    IN  [name |-> Get(lead, "name"),
         role |-> Get(lead, "role"),
         company |-> Get(lead, "company"),
         industry |-> Get(lead, "industry"),
         location |-> Get(lead, "location"),
         intent |-> determineIntent(aiScore),
         score |-> aiScore,
         reasoning |-> aiResult.reasoning,
         details |-> [rule_score |-> ruleResult.score,
                      ai_score |-> aiScore,
                      ai_intent |-> aiResult.intent]]

\* the ScoredLead of the try branch of scoreLead
composed(lead, ruleResult, aiResult) ==
    LET aiScore == mapIntentToScore(aiResult.intent)
        totalScore == ruleResult.score + aiScore
    IN  [name |-> Get(lead, "name"),
         role |-> Get(lead, "role"),
         company |-> Get(lead, "company"),
         industry |-> Get(lead, "industry"),
         location |-> Get(lead, "location"),
         intent |-> determineIntent(totalScore),
         score |-> totalScore,
         reasoning |-> join(<<"Rule Score (" \o ToString(ruleResult.score) \o "/50):",
                              reasonLine(ruleResult.breakdown.role),
                              reasonLine(ruleResult.breakdown.industry),
                              reasonLine(ruleResult.breakdown.completeness),
                              "AI Analysis (" \o ToString(aiScore) \o "/50): "
                                  \o aiResult.reasoning>>, " "),
         details |-> [rule_score |-> ruleResult.score,
                      ai_score |-> aiScore,
                      ai_intent |-> aiResult.intent]]

\* a variant that scales the bands to the 50 points of the rule score
ruleOnly_ScaledBands(lead, ruleResult) ==
    [name |-> Get(lead, "name"),
     role |-> Get(lead, "role"),
     company |-> Get(lead, "company"),
     industry |-> Get(lead, "industry"),
     location |-> Get(lead, "location"),
     intent |-> determineIntent(2 * ruleResult.score),
     score |-> ruleResult.score,
     reasoning |-> "Rule-based scoring only (AI unavailable). "
                   \o ruleResult.breakdown.role.reason \o ", "
                   \o ruleResult.breakdown.industry.reason \o ", "
                   \o ruleResult.breakdown.completeness.reason \o ".",
     details |-> [rule_score |-> ruleResult.score,
                  ai_score |-> 0,
                  error |-> "AI service unavailable"]]

\* the ScoredLead of the catch branch of scoreLead
ruleOnly(lead, ruleResult) ==
    [name |-> Get(lead, "name"),
     role |-> Get(lead, "role"),
     company |-> Get(lead, "company"),
     industry |-> Get(lead, "industry"),
     location |-> Get(lead, "location"),
     intent |-> determineIntent(ruleResult.score),
     score |-> ruleResult.score,
     reasoning |-> "Rule-based scoring only (AI unavailable). "
                   \o ruleResult.breakdown.role.reason \o ", "
                   \o ruleResult.breakdown.industry.reason \o ", "
                   \o ruleResult.breakdown.completeness.reason \o ".",
     details |-> [rule_score |-> ruleResult.score,
                  ai_score |-> 0,
                  error |-> "AI service unavailable"]]

\* scoreLead, given what classifyIntent is given
scoreLead(lead, offer, key, answer) ==
    LET ruleResult == calculateRuleScore(lead, offer)
        aiResult == classifyIntent(lead, offer, key, answer)
    IN  IF aiResult = Threw
        THEN ruleOnly(lead, ruleResult)
        ELSE composed(lead, ruleResult, aiResult)

(***************************************************************************)
(* Pipeline driver (scoringService).                                       *)
(***************************************************************************)
\* a variant that puts x before the elements it compares equal to
RECURSIVE insertSorted_BeforeEqual(_, _)
insertSorted_BeforeEqual(sorted, x) ==
    IF sorted = <<>> THEN <<x>>
    ELSE IF Head(sorted).score - x.score <= 0 THEN <<x>> \o sorted
    ELSE <<Head(sorted)>> \o insertSorted_BeforeEqual(Tail(sorted), x)

\* x put into a list that is sorted by (a, b) => b.score - a.score, behind
\* the elements that do not sort after it
RECURSIVE insertSorted(_, _)
insertSorted(sorted, x) ==
    IF sorted = <<>> THEN <<x>>
    ELSE IF Head(sorted).score - x.score < 0 THEN <<x>> \o sorted
    ELSE <<Head(sorted)>> \o insertSorted(Tail(sorted), x)

\* scoredLeads.sort((a, b) => b.score - a.score): Array.prototype.sort is stable
RECURSIVE sortByScore(_)
sortByScore(list) ==
    IF list = <<>> THEN <<>>
    ELSE insertSorted(sortByScore(SubSeq(list, 1, Len(list) - 1)), list[Len(list)])

(***************************************************************************)
(* Validators.                                                             *)
(***************************************************************************)
LEAD_REQUIRED_FIELDS == <<"name", "role", "company", "industry", "location">>

\* validateLead(data).valid, for a row of strings
validateLead(data) ==
    LET ok(field) ==
            ~Falsy(Get(data, field)) /\ Len(trim(Get(data, field))) # 0
    IN  every(LEAD_REQUIRED_FIELDS, ok)

\* validateOffer(data).valid, for a body whose lists hold strings
validateOffer(data) ==
    LET nonEmpty(x) == Len(trim(x)) > 0
        listOk(field) ==
            /\ Get(data, field) # Undefined
            /\ Len(data[field]) # 0
            /\ every(data[field], nonEmpty)
    IN  /\ ~Falsy(Get(data, "name")) /\ Len(trim(data.name)) # 0
        /\ listOk("value_props")
        /\ listOk("ideal_use_cases")

(***************************************************************************)
(* Storage. The timestamps it stamps on what it stores (createdAt,         *)
(* uploadedAt, scoredAt) are left out: nothing reads them.                 *)
(***************************************************************************)
NoOffer == [null |-> TRUE]

\* lead with the property id set to n: {...lead, id: n}
withId(lead, n) ==
    [f \in DOMAIN lead \cup {"id"} |-> IF f = "id" THEN n ELSE lead[f]]

\* a variant that keeps the results stored before
setScoredLeads_Accumulate(scoredData) ==
    storage' = [storage EXCEPT !.scoredLeads =
                   LET all == storage.scoredLeads \o scoredData
                   IN  [i \in 1..Len(all) |-> withId(all[i], i)]]

setOffer(offerData) ==
    storage' = [storage EXCEPT !.offer = offerData]

setLeads(leadsData) ==
    storage' = [storage EXCEPT !.leads =
                   [i \in 1..Len(leadsData) |-> withId(leadsData[i], i)]]

setScoredLeads(scoredData) ==
    storage' = [storage EXCEPT !.scoredLeads =
                   [i \in 1..Len(scoredData) |-> withId(scoredData[i], i)]]

(***************************************************************************)
(* Requests the model sends.                                               *)
(***************************************************************************)
\* bodies of POST /offer; the last one has no ideal_use_cases
OfferBodies ==
    { [name |-> "Outreach AI", value_props |-> <<"24/7 outreach">>,
       ideal_use_cases |-> <<"B2B SaaS mid-market">>],
      [name |-> "ShopKit", value_props |-> <<"More sales">>,
       ideal_use_cases |-> <<"Retail">>],
      [name |-> "Nameless", value_props |-> <<"a">>] }

\* rows of an uploaded CSV file; the second has no linkedin_bio column and the
\* last one no role
CsvRows ==
    { [name |-> "Ava Patel", role |-> "Head of Growth", company |-> "FlowMetrics",
       industry |-> "B2B SaaS", location |-> "SF", linkedin_bio |-> "Growth leader"],
      [name |-> "Cy Lee", role |-> " Engineer", company |-> "Shopr",
       industry |-> "Retail", location |-> "LA"],
      [name |-> "Dee Roy", role |-> " ", company |-> "Acme",
       industry |-> "Retail", location |-> "LA", linkedin_bio |-> "bio"] }

\* what the external service does with a call
ApiAnswers ==
    { ApiError,
      ApiText("Intent: High\nReasoning: Strong fit."),
      ApiText("intent: LOW\nreasoning:\nNo budget yet.") }

\* the uploaded files
CsvFiles == SeqsUpTo(CsvRows, MaxLeads)

RunIds == 1..MaxRuns

\* row as the upload handler trims it
trimmedRow(row) ==
    [key \in DOMAIN row |-> IF Falsy(row[key]) THEN "" ELSE trim(row[key])]

\* The leads and offers the store can hold, given the requests above, and
\* scoreLead on them. TLC computes this table once; the steps below look the
\* ScoredLead up in it.
StorableLeads ==
    {withId(trimmedRow(row), n) : row \in {x \in CsvRows : validateLead(trimmedRow(x))},
                                  n \in 1..MaxLeads}

StorableOffers ==
    {[name |-> body.name, value_props |-> body.value_props,
      ideal_use_cases |-> body.ideal_use_cases] :
         body \in {x \in OfferBodies : validateOffer(x)}}

scoreLeadTable ==
    [lead \in StorableLeads, offer \in StorableOffers, key \in BOOLEAN,
     answer \in ApiAnswers |-> scoreLead(lead, offer, key, answer)]

(***************************************************************************)
(* Routes.                                                                 *)
(***************************************************************************)
\* a request not yet sent: no locals, no response
IdleRun ==
    [pc |-> "idle", offer |-> NoOffer, leads |-> <<>>, i |-> 0,
     scoredLeads |-> <<>>, answers |-> <<>>, calls |-> <<>>,
     status |-> 0, total_leads |-> 0]

\* a request that was answered: its locals are gone, the response stays
Responded(status, total) ==
    [IdleRun EXCEPT !.pc = "responded", !.status = status, !.total_leads = total]

NoRun == [ran |-> FALSE]


harnessIdle == UNCHANGED <<fnIn, fnOut>>

\* POST /offer
PostOffer(body) ==
    /\ writes < MaxWrites
    /\ IF validateOffer(body)
       THEN /\ setOffer([name |-> body.name,
                         value_props |-> body.value_props,
                         ideal_use_cases |-> body.ideal_use_cases])
            /\ writes' = writes + 1
       ELSE UNCHANGED <<storage, writes>>
    /\ UNCHANGED <<apiKey, runs, completed>>
    /\ harnessIdle

\* POST /leads/upload with a file of these rows
UploadLeads(rows) ==
    LET trimmed == [i \in 1..Len(rows) |-> trimmedRow(rows[i])]
        valid == SelectSeq(trimmed, validateLead)
    IN  /\ writes < MaxWrites
        /\ IF Len(valid) = 0
           THEN UNCHANGED <<storage, writes>>
           ELSE /\ setLeads(valid)
                /\ writes' = writes + 1
        /\ UNCHANGED <<apiKey, runs, completed>>
        /\ harnessIdle

\* a variant that does not test whether leads were uploaded
PostScore_NoLeadCheck(r) ==
    /\ runs[r].pc = "idle"
    /\ \A q \in RunIds : q < r => runs[q].pc # "idle"
    /\ IF storage.offer = NoOffer
       THEN runs' = [runs EXCEPT ![r] = Responded(400, 0)]
       ELSE runs' = [runs EXCEPT ![r].pc = "scoring",
                                 ![r].offer = storage.offer,
                                 ![r].leads = storage.leads,
                                 ![r].i = 1]
    /\ UNCHANGED <<storage, apiKey, completed, writes>>
    /\ harnessIdle

\* POST /score up to the call of scoreAllLeads; the requests are numbered in
\* the order in which they arrive
PostScore(r) ==
    /\ runs[r].pc = "idle"
    /\ \A q \in RunIds : q < r => runs[q].pc # "idle"
    /\ IF storage.offer = NoOffer
       THEN runs' = [runs EXCEPT ![r] = Responded(400, 0)]
       ELSE IF Len(storage.leads) = 0
       THEN runs' = [runs EXCEPT ![r] = Responded(400, 0)]
       ELSE runs' = [runs EXCEPT ![r].pc = "scoring",
                                 ![r].offer = storage.offer,
                                 ![r].leads = storage.leads,
                                 ![r].i = 1]
    /\ UNCHANGED <<storage, apiKey, completed, writes>>
    /\ harnessIdle

\* a variant that takes the next lead from the store, not from the list the
\* request read
ScoreNext_FromStore(r) ==
    LET run == runs[r]
        lead == IF run.i <= Len(storage.leads) THEN storage.leads[run.i]
                ELSE run.leads[run.i]
    IN  /\ run.pc = "scoring"
        /\ run.i <= Len(run.leads)
        /\ IF callsApi(run.offer, apiKey)
           THEN runs' = [runs EXCEPT ![r].pc = "awaiting",
                                     ![r].calls = Append(@, run.i)]
           ELSE runs' = [runs EXCEPT
                    ![r].scoredLeads =
                        Append(@, scoreLeadTable[lead, run.offer, apiKey, ApiError]),
                    ![r].answers = Append(@, NoCall),
                    ![r].i = @ + 1]
        /\ UNCHANGED <<storage, apiKey, completed, writes>>
        /\ harnessIdle

\* scoreAllLeads takes the next lead: scoreLead runs up to the external call,
\* or to its end when classifyIntent makes no call
ScoreNext(r) ==
    LET run == runs[r]
    IN  /\ run.pc = "scoring"
        /\ run.i <= Len(run.leads)
        /\ IF callsApi(run.offer, apiKey)
           THEN runs' = [runs EXCEPT ![r].pc = "awaiting",
                                     ![r].calls = Append(@, run.i)]
           ELSE runs' = [runs EXCEPT
                    ![r].scoredLeads =
                        Append(@, scoreLeadTable[run.leads[run.i], run.offer, apiKey, ApiError]),
                    ![r].answers = Append(@, NoCall),
                    ![r].i = @ + 1]
        /\ UNCHANGED <<storage, apiKey, completed, writes>>
        /\ harnessIdle

\* a variant in which a failed call ends the run with an error
ApiReturns_Abort(r, answer) ==
    LET run == runs[r]
    IN  /\ run.pc = "awaiting"
        /\ IF answer = ApiError
           THEN runs' = [runs EXCEPT ![r] = Responded(500, 0)]
           ELSE runs' = [runs EXCEPT
                    ![r].pc = "scoring",
                    ![r].scoredLeads =
                        Append(@, scoreLeadTable[run.leads[run.i], run.offer, apiKey, answer]),
                    ![r].answers = Append(@, answer),
                    ![r].i = @ + 1]
        /\ UNCHANGED <<storage, apiKey, completed, writes>>
        /\ harnessIdle

\* a variant in which the lead of a failed call is taken again
ApiReturns_Retry(r, answer) ==
    LET run == runs[r]
    IN  /\ run.pc = "awaiting"
        /\ IF answer = ApiError
           THEN runs' = [runs EXCEPT ![r].pc = "scoring"]
           ELSE runs' = [runs EXCEPT
                    ![r].pc = "scoring",
                    ![r].scoredLeads =
                        Append(@, scoreLeadTable[run.leads[run.i], run.offer, apiKey, answer]),
                    ![r].answers = Append(@, answer),
                    ![r].i = @ + 1]
        /\ UNCHANGED <<storage, apiKey, completed, writes>>
        /\ harnessIdle

\* the external call returns or fails: scoreLead runs to its end and
\* scoreAllLeads pushes the ScoredLead
ApiReturns(r, answer) ==
    LET run == runs[r]
    IN  /\ run.pc = "awaiting"
        /\ runs' = [runs EXCEPT
               ![r].pc = "scoring",
               ![r].scoredLeads =
                   Append(@, scoreLeadTable[run.leads[run.i], run.offer, apiKey, answer]),
               ![r].answers = Append(@, answer),
               ![r].i = @ + 1]
        /\ UNCHANGED <<storage, apiKey, completed, writes>>
        /\ harnessIdle

\* scoreAllLeads sorts and returns; POST /score stores the result and responds
Finish(r) ==
    LET run == runs[r]
        sorted == sortByScore(run.scoredLeads)
    IN  /\ run.pc = "scoring"
        /\ run.i > Len(run.leads)
        /\ setScoredLeads(sorted)
        /\ runs' = [runs EXCEPT ![r] = Responded(200, Len(sorted))]
        /\ completed' = [ran |-> TRUE, offer |-> run.offer, leads |-> run.leads,
                         answers |-> run.answers, calls |-> run.calls,
                         scored |-> run.scoredLeads]
        /\ UNCHANGED <<apiKey, writes>>
        /\ harnessIdle

Init ==
    /\ storage = [offer |-> NoOffer, leads |-> <<>>, scoredLeads |-> <<>>]
    /\ apiKey \in BOOLEAN
    /\ runs = [r \in RunIds |-> IdleRun]
    /\ completed = NoRun
    /\ writes = 0
    /\ fnIn = NoRun
    /\ fnOut = NoRun

Next ==
    \/ \E body \in OfferBodies : PostOffer(body)
    \/ \E rows \in CsvFiles : UploadLeads(rows)
    \/ \E r \in RunIds : PostScore(r)
    \/ \E r \in RunIds : ScoreNext(r)
    \/ \E r \in RunIds, answer \in ApiAnswers : ApiReturns(r, answer)
    \/ \E r \in RunIds : Finish(r)

Spec == Init /\ [][Next]_vars

\* the steps of request r once scoreAllLeads runs
RunStep(r) ==
    \/ ScoreNext(r)
    \/ \E answer \in ApiAnswers : ApiReturns(r, answer)
    \/ Finish(r)

\* Every external call returns or fails, and the event loop then runs the
\* continuation that awaits it.
FairSpec == Spec /\ \A r \in RunIds : WF_vars(RunStep(r))

(***************************************************************************)
(* The functions on their own: Init draws the arguments, the action calls  *)
(* the function. scoreLead is exported, so its callers are not only the    *)
(* routes: the offers given to it here include one that POST /offer would  *)
(* reject, for which classifyIntent throws.                                *)
(***************************************************************************)
RoleWords ==
    {"CEO", "Sr.", "Lead", "Engineer", "Coordinator", "vp", "Head", " of ",
     "Senior ", "Manager", " "}

\* scoreRole(role); without the field role, scoreRole(undefined)
ScoreRoleCalls ==
    {[fn |-> "scoreRole"]}
    \cup {[fn |-> "scoreRole", role |-> role] : role \in WordsUpTo(RoleWords, MaxRoleWords)}

Industries ==
    {"", "B2B SaaS", "Online Retail", "Fintech", "Farming", "retail"}

UseCases ==
    {"B2B SaaS mid-market", "Retail", "Healthcare", "Enterprise IT", "farm"}

\* scoreIndustry(leadIndustry, idealUseCases); a missing field is undefined
ScoreIndustryCalls ==
    LET lists == SeqsUpTo(UseCases, MaxUseCases)
    IN  {[fn |-> "scoreIndustry", leadIndustry |-> i, idealUseCases |-> l] :
             i \in Industries, l \in lists}
        \cup {[fn |-> "scoreIndustry", idealUseCases |-> l] : l \in lists}
        \cup {[fn |-> "scoreIndustry", leadIndustry |-> i] : i \in Industries}

LabelWords == {"High", "HIGH", "medium", "Medium", "low", "LOW", "Very ", "none"}

MapIntentCalls ==
    {[fn |-> "mapIntentToScore", intent |-> l] :
         l \in WordsUpTo(LabelWords, MaxLabelWords)}

UnitLeads ==
    {[name |-> "Ava", role |-> role, company |-> "F", industry |-> industry,
      location |-> "SF", linkedin_bio |-> "bio"] :
         role \in {"CEO", "Sales Manager", "Engineer"},
         industry \in {"B2B SaaS", "Retail", "Farming"}}
    \cup
    {[name |-> "Ava", role |-> role, company |-> "F", industry |-> industry,
      location |-> "SF"] :
         role \in {"CEO", "Sales Manager", "Engineer"},
         industry \in {"B2B SaaS", "Retail", "Farming"}}

UnitOffers ==
    {[name |-> "X", value_props |-> <<"a">>, ideal_use_cases |-> <<uc>>] :
         uc \in {"B2B SaaS mid-market", "Retail", "Healthcare"}}
    \cup {[name |-> "X", value_props |-> <<"a">>]}

UnitAnswers ==
    ApiAnswers \cup {ApiText("Intent: Medium\nReasoning: Some fit."),
                     ApiText("I cannot classify this prospect.")}

\* scoreLead(lead, offer), with the credential set and the call doing answer,
\* or with no credential
ScoreLeadCalls ==
    {[fn |-> "scoreLead", lead |-> l, offer |-> o, key |-> TRUE, answer |-> a] :
         l \in UnitLeads, o \in UnitOffers, a \in UnitAnswers}
    \cup {[fn |-> "scoreLead", lead |-> l, offer |-> o, key |-> FALSE, answer |-> NoCall] :
         l \in UnitLeads, o \in UnitOffers}

\* what a field of a lead holds in the calculateRuleScore harness, when the
\* lead has the field
FieldValues(f) ==
    CASE f = "role" -> {" ", "CEO", "Engineer"}
      [] f = "industry" -> {" ", "B2B SaaS", "Farming"}
      [] f = "linkedin_bio" -> {"", " ", " bio"}
      [] f = "name" -> {" ", "Ava "}
      [] f = "company" -> {" ", "F"}
      [] f = "location" -> {" ", "SF"}

\* the leads with some of these fields
RECURSIVE LeadsOver(_)
LeadsOver(fields) ==
    IF fields = {} THEN {[f \in {} |-> ""]}
    ELSE LET f == CHOOSE x \in fields : TRUE
             rest == LeadsOver(fields \ {f})
         IN  rest \cup {[g \in DOMAIN r \cup {f} |-> IF g = f THEN v ELSE r[g]] :
                            r \in rest, v \in FieldValues(f)}

\* calculateRuleScore(lead, offer)
RuleScoreCalls ==
    {[fn |-> "calculateRuleScore", lead |-> l,
      offer |-> [name |-> "X", value_props |-> <<"a">>,
                 ideal_use_cases |-> <<"B2B SaaS mid-market">>]] :
         l \in LeadsOver({"name", "role", "company", "industry", "location",
                          "linkedin_bio"})}

FallbackRoles ==
    {"", "CEO", "Sales Manager", "Team Lead", "Engineer", "Lead Director"}

\* fallbackClassification(lead, offer), for leads with and without a role and
\* an industry and offers with a list of ideal use cases
FallbackCalls ==
    LET offers == {[name |-> "X", value_props |-> <<"a">>, ideal_use_cases |-> l] :
                       l \in SeqsUpTo(UseCases, MaxUseCases)}
        leads ==
            {[name |-> "Ava", role |-> r, industry |-> i] :
                 r \in FallbackRoles, i \in Industries}
            \cup {[name |-> "Ava", role |-> r] : r \in FallbackRoles}
            \cup {[name |-> "Ava", industry |-> i] : i \in Industries}
    IN  {[fn |-> "fallbackClassification", lead |-> l, offer |-> o] :
             l \in leads, o \in offers}

UnitCalls ==
    ScoreRoleCalls \cup ScoreIndustryCalls \cup MapIntentCalls \cup ScoreLeadCalls
    \cup RuleScoreCalls \cup FallbackCalls

pipelineIdle == UNCHANGED <<storage, apiKey, runs, completed, writes>>

CallScoreRole ==
    /\ fnOut = NoRun /\ fnIn.fn = "scoreRole"
    /\ fnOut' = [ret |-> scoreRole(Get(fnIn, "role"))]
    /\ UNCHANGED fnIn /\ pipelineIdle

CallScoreIndustry ==
    /\ fnOut = NoRun /\ fnIn.fn = "scoreIndustry"
    /\ fnOut' = [ret |-> scoreIndustry(Get(fnIn, "leadIndustry"),
                                       Get(fnIn, "idealUseCases"))]
    /\ UNCHANGED fnIn /\ pipelineIdle

CallMapIntentToScore ==
    /\ fnOut = NoRun /\ fnIn.fn = "mapIntentToScore"
    /\ fnOut' = [ret |-> mapIntentToScore(fnIn.intent)]
    /\ UNCHANGED fnIn /\ pipelineIdle

CallScoreLead ==
    /\ fnOut = NoRun /\ fnIn.fn = "scoreLead"
    /\ fnOut' = [ret |-> scoreLead(fnIn.lead, fnIn.offer, fnIn.key, fnIn.answer)]
    /\ UNCHANGED fnIn /\ pipelineIdle

CallCalculateRuleScore ==
    /\ fnOut = NoRun /\ fnIn.fn = "calculateRuleScore"
    /\ fnOut' = [ret |-> calculateRuleScore(fnIn.lead, fnIn.offer)]
    /\ UNCHANGED fnIn /\ pipelineIdle

CallFallbackClassification ==
    /\ fnOut = NoRun /\ fnIn.fn = "fallbackClassification"
    /\ fnOut' = [ret |-> fallbackClassification(fnIn.lead, fnIn.offer)]
    /\ UNCHANGED fnIn /\ pipelineIdle

InitUnit ==
    /\ storage = [offer |-> NoOffer, leads |-> <<>>, scoredLeads |-> <<>>]
    /\ apiKey = FALSE
    /\ runs = [r \in RunIds |-> IdleRun]
    /\ completed = NoRun
    /\ writes = 0
    /\ fnIn \in UnitCalls
    /\ fnOut = NoRun

NextUnit ==
    \/ CallScoreRole
    \/ CallScoreIndustry
    \/ CallMapIntentToScore
    \/ CallScoreLead
    \/ CallCalculateRuleScore
    \/ CallFallbackClassification

SpecUnit == InitUnit /\ [][NextUnit]_vars

(***************************************************************************)
(* parseAIResponse on its own, on response texts of a few lines.           *)
(***************************************************************************)
ResponseLines ==
    {"Intent: High", "intent:  LOW", "Intent: unsure",
     "Reasoning: Strong fit for ICP.", " reasoning: Good fit", "REASONING:",
     "Reasoning: Good match", "Budget is high enough.", "Too early.", ""}

\* the texts of 1 to n of these lines
RECURSIVE TextsUpTo(_, _)
TextsUpTo(L, n) ==
    IF n = 1 THEN L
    ELSE LET shorter == TextsUpTo(L, n - 1)
         IN  shorter \cup {t \o "\n" \o l : t \in shorter, l \in L}

\* parseAIResponse(response)
ParseCalls ==
    {[fn |-> "parseAIResponse", response |-> t] :
         t \in TextsUpTo(ResponseLines, MaxResponseLines)}

CallParseAIResponse ==
    /\ fnOut = NoRun /\ fnIn.fn = "parseAIResponse"
    /\ fnOut' = [ret |-> parseAIResponse(fnIn.response)]
    /\ UNCHANGED fnIn /\ pipelineIdle

InitParse ==
    /\ storage = [offer |-> NoOffer, leads |-> <<>>, scoredLeads |-> <<>>]
    /\ apiKey = FALSE
    /\ runs = [r \in RunIds |-> IdleRun]
    /\ completed = NoRun
    /\ writes = 0
    /\ fnIn \in ParseCalls
    /\ fnOut = NoRun

NextParse == CallParseAIResponse

SpecParse == InitParse /\ [][NextParse]_vars

(***************************************************************************)
(* Properties.                                                             *)
(***************************************************************************)
\* k occurs in s
Contains(s, k) ==
    \E i \in 1..(Len(s) - Len(k) + 1) : SubSeq(s, i, i + Len(k) - 1) = k

Range(list) == {list[i] : i \in 1..Len(list)}

\* the function f of the harness has returned
Returned(f) == fnOut # NoRun /\ fnIn.fn = f

\* the band of a score: High from 70, Medium from 40, Low below
Band(score) ==
    CASE score >= 70 -> "High"
      [] score >= 40 /\ score < 70 -> "Medium"
      [] score < 40 -> "Low"

\* a ScoredLead of the catch branch of scoreLead
IsRuleOnly(scored) == "error" \in DOMAIN scored.details

\* C1: every ScoredLead that scoreLead returns, whatever the classifier step
\* did (an answer of the service, the heuristic, or the rule-only result after
\* classifyIntent threw), has 0 <= rule_score <= 50, ai_score in {0,10,30,50},
\* score = rule_score + ai_score and 0 <= score <= 100.
C1_ScoreRanges ==
    Returned("scoreLead") =>
        LET d == fnOut.ret.details
        IN  /\ d.rule_score \in 0..50
            /\ d.ai_score \in {0, 10, 30, 50}
            /\ fnOut.ret.score = d.rule_score + d.ai_score
            /\ fnOut.ret.score \in 0..100

\* scoreLead returned the rule-only result of its catch branch, with the
\* credential set
C1_Witness ==
    /\ Returned("scoreLead")
    /\ IsRuleOnly(fnOut.ret)
    /\ fnIn.key

\* C5: when the classifier returned a result, the final intent is the band of
\* the combined score (High from 70, Medium from 40 to 69, Low below 40),
\* whatever the classifier's own label is.
C5_IntentFromScore ==
    (Returned("scoreLead") /\ ~IsRuleOnly(fnOut.ret)) =>
        /\ fnOut.ret.intent = Band(fnOut.ret.score)
        /\ fnOut.ret.score = fnOut.ret.details.rule_score + fnOut.ret.details.ai_score

\* the classifier said High and the final intent is Medium, at a score of 40
\* to 69
C5_Witness ==
    /\ Returned("scoreLead")
    /\ ~IsRuleOnly(fnOut.ret)
    /\ fnOut.ret.details.ai_intent = "High"
    /\ fnOut.ret.intent = "Medium"

\* C6: mapIntentToScore gives 50 for a label that contains "high" in any
\* case, else 30 for one that contains "medium", else 10 for one that contains
\* "low", else 30; and a ScoredLead of the normal path has ai_intent High,
\* Medium or Low with ai_score 50, 30 or 10 respectively.
C6_MapIntent ==
    /\ Returned("mapIntentToScore") =>
           LET l == toLowerCase(fnIn.intent)
           IN  fnOut.ret = IF Contains(l, "high") THEN 50
                           ELSE IF Contains(l, "medium") THEN 30
                           ELSE IF Contains(l, "low") THEN 10
                           ELSE 30
    /\ (Returned("scoreLead") /\ ~IsRuleOnly(fnOut.ret)) =>
           LET d == fnOut.ret.details
           IN  /\ d.ai_intent \in {"High", "Medium", "Low"}
               /\ d.ai_score = 50 <=> d.ai_intent = "High"
               /\ d.ai_score = 30 <=> d.ai_intent = "Medium"
               /\ d.ai_score = 10 <=> d.ai_intent = "Low"

\* a label that contains both "low" and "high" was mapped to 50
C6_Witness ==
    /\ Returned("mapIntentToScore")
    /\ Contains(toLowerCase(fnIn.intent), "low")
    /\ Contains(toLowerCase(fnIn.intent), "high")
    /\ fnOut.ret = 50

\* C9: scoreRole gives 0 for a missing or empty role, else 20 when the
\* lower-cased role contains a decision-maker keyword, else 10 when it
\* contains an influencer keyword, else 0.
C9_ScoreRole ==
    Returned("scoreRole") =>
        LET role == Get(fnIn, "role")
            lowered == toLowerCase(role)
            decisionMaker == \E k \in Range(DECISION_MAKER_KEYWORDS) : Contains(lowered, k)
            influencer == \E k \in Range(INFLUENCER_KEYWORDS) : Contains(lowered, k)
        IN  /\ fnOut.ret.score \in {0, 10, 20}
            /\ fnOut.ret.score =
                   IF role = Undefined \/ role = "" THEN 0
                   ELSE IF decisionMaker THEN 20
                   ELSE IF influencer THEN 10
                   ELSE 0

\* a role with a keyword of each set scored 20
C9_Witness ==
    /\ Returned("scoreRole")
    /\ "role" \in DOMAIN fnIn
    /\ \E k \in Range(INFLUENCER_KEYWORDS) : Contains(toLowerCase(fnIn.role), k)
    /\ \E k \in Range(DECISION_MAKER_KEYWORDS) : Contains(toLowerCase(fnIn.role), k)
    /\ fnOut.ret.score = 20

\* C10: scoreIndustry gives 0 when the industry is missing or there are no
\* ideal use cases; else 20 when, in lower case, the industry contains a use
\* case or a use case contains the industry; else 10 when the industry or a
\* use case contains one of saas, software, tech, b2b, enterprise; else 0.
C10_ScoreIndustry ==
    Returned("scoreIndustry") =>
        LET industry == Get(fnIn, "leadIndustry")
            noData ==
                \/ industry = Undefined \/ industry = ""
                \/ "idealUseCases" \notin DOMAIN fnIn
                \/ Len(fnIn.idealUseCases) = 0
            ind == toLowerCase(industry)
            cases == {toLowerCase(uc) : uc \in Range(fnIn.idealUseCases)}
            exact == \E uc \in cases : Contains(ind, uc) \/ Contains(uc, ind)
            adjacent ==
                \E k \in {"saas", "software", "tech", "b2b", "enterprise"} :
                    Contains(ind, k) \/ \E uc \in cases : Contains(uc, k)
        IN  /\ fnOut.ret.score \in {0, 10, 20}
            /\ fnOut.ret.score =
                   IF noData THEN 0
                   ELSE IF exact THEN 20
                   ELSE IF adjacent THEN 10
                   ELSE 0

\* an industry contained in a use case, and containing none, scored 20
C10_Witness ==
    /\ Returned("scoreIndustry")
    /\ "leadIndustry" \in DOMAIN fnIn /\ fnIn.leadIndustry # ""
    /\ "idealUseCases" \in DOMAIN fnIn
    /\ \E uc \in Range(fnIn.idealUseCases) :
           Contains(toLowerCase(uc), toLowerCase(fnIn.leadIndustry))
    /\ \A uc \in Range(fnIn.idealUseCases) :
           ~Contains(toLowerCase(fnIn.leadIndustry), toLowerCase(uc))
    /\ fnOut.ret.score = 20

\* s has a character that trim() keeps
NonBlank(s) == \E i \in 1..Len(s) : CharAt(s, i) \notin WhiteSpace

\* C11: the completeness component of calculateRuleScore is 10 exactly when
\* name, role, company, industry, location and linkedin_bio are all present
\* and not blank, else 0; a lead that upload validation accepts and that has
\* no linkedin_bio gets completeness 0 and a rule score of at most 40.
C11_Completeness ==
    Returned("calculateRuleScore") =>
        LET lead == fnIn.lead
            part == fnOut.ret.breakdown.completeness.score
            all == \A f \in {"name", "role", "company", "industry", "location",
                              "linkedin_bio"} :
                       f \in DOMAIN lead /\ NonBlank(lead[f])
            noBio == "linkedin_bio" \notin DOMAIN lead \/ lead.linkedin_bio = ""
        IN  /\ part = IF all THEN 10 ELSE 0
            /\ (validateLead(lead) /\ noBio) =>
                   (part = 0 /\ fnOut.ret.score <= 40)

\* a lead that upload validation accepts, without linkedin_bio, scored 40
C11_Witness ==
    /\ Returned("calculateRuleScore")
    /\ validateLead(fnIn.lead)
    /\ "linkedin_bio" \notin DOMAIN fnIn.lead
    /\ fnOut.ret.breakdown.completeness.score = 0
    /\ fnOut.ret.score = 40

\* the lines of a response text, trimmed
TrimmedLines(text) ==
    LET raw == splitLines(text)
    IN  [i \in 1..Len(raw) |-> trim(raw[i])]

\* the line starts with "intent:", in any case
IntentLine(l) == Len(l) >= 7 /\ toLowerCase(SubSeq(l, 1, 7)) = "intent:"

\* the line starts with "reasoning:", in any case
ReasoningLine(l) == Len(l) >= 10 /\ toLowerCase(SubSeq(l, 1, 10)) = "reasoning:"

\* the line holds "intent:", white space or none, and then high, medium or low
HasLabel(l) ==
    \E p \in 1..Len(l), q \in 1..Len(l), label \in {"high", "medium", "low"} :
        /\ p + 7 <= q /\ q + Len(label) - 1 <= Len(l)
        /\ toLowerCase(SubSeq(l, p, p + 6)) = "intent:"
        /\ \A k \in (p + 7)..(q - 1) : CharAt(l, k) \in WhiteSpace
        /\ toLowerCase(SubSeq(l, q, q + Len(label) - 1)) = label

\* C12: parseAIResponse returns the intent High, Medium or Low; Medium when
\* no line that starts with "intent:" holds a label high, medium or low; and
\* the reasoning "Unable to determine fit." when no line starts with
\* "reasoning:".
C12_ParseDefaults ==
    Returned("parseAIResponse") =>
        LET lines == TrimmedLines(fnIn.response)
        IN  /\ fnOut.ret.intent \in {"High", "Medium", "Low"}
            /\ (~\E i \in 1..Len(lines) : IntentLine(lines[i]) /\ HasLabel(lines[i]))
                   => fnOut.ret.intent = "Medium"
            /\ (~\E i \in 1..Len(lines) : ReasoningLine(lines[i]))
                   => fnOut.ret.reasoning = "Unable to determine fit."

\* a text of several lines, with an "intent:" line but no label and without
\* a "reasoning:" line, gave Medium and the placeholder
C12_Witness ==
    /\ Returned("parseAIResponse")
    /\ LET lines == TrimmedLines(fnIn.response)
       IN  /\ Len(lines) >= 2
           /\ \E i \in 1..Len(lines) : IntentLine(lines[i])
           /\ \A i \in 1..Len(lines) : ~HasLabel(lines[i]) /\ ~ReasoningLine(lines[i])
    /\ fnOut.ret.intent = "Medium"
    /\ fnOut.ret.reasoning = "Unable to determine fit."

\* the positions of the lines that start with "reasoning:"
ReasoningAt(lines) == {i \in 1..Len(lines) : ReasoningLine(lines[i])}

\* the reasoning found on the last "reasoning:" line
FoundText(lines) ==
    LET last == CHOOSE i \in ReasoningAt(lines) : \A j \in ReasoningAt(lines) : j <= i
    IN  trim(SubSeq(lines[last], 11, Len(lines[last])))

\* no reasoning was found, or one of fewer than 10 characters
ShortReasoning(lines) == ReasoningAt(lines) = {} \/ Len(FoundText(lines)) < 10

\* the line after the first "reasoning:" line, when it has more than 10
\* characters, else ""
LongNextLine(lines) ==
    IF ReasoningAt(lines) = {} THEN ""
    ELSE LET first == CHOOSE i \in ReasoningAt(lines) : \A j \in ReasoningAt(lines) : i <= j
         IN  IF first + 1 <= Len(lines) /\ Len(lines[first + 1]) > 10
             THEN lines[first + 1] ELSE ""

\* C13 as stated: when no reasoning was found or the one found has fewer than
\* 10 characters, the reasoning is the line after the "reasoning:" line if
\* that line has more than 10 characters, and else the placeholder.
C13_NextLineOrPlaceholder ==
    Returned("parseAIResponse") =>
        LET lines == TrimmedLines(fnIn.response)
        IN  ShortReasoning(lines) =>
                fnOut.ret.reasoning =
                    IF LongNextLine(lines) # "" THEN LongNextLine(lines)
                    ELSE "Unable to determine fit."

\* C13 amended: when no reasoning was found or the one found has fewer than
\* 10 characters, the reasoning is the line after the "reasoning:" line if
\* that line has more than 10 characters, and else is left as it was: the
\* placeholder when none was found, the short text found otherwise.
C13_NextLineOrUnchanged ==
    Returned("parseAIResponse") =>
        LET lines == TrimmedLines(fnIn.response)
        IN  ShortReasoning(lines) =>
                fnOut.ret.reasoning =
                    IF LongNextLine(lines) # "" THEN LongNextLine(lines)
                    ELSE IF ReasoningAt(lines) = {} THEN "Unable to determine fit."
                    ELSE FoundText(lines)

\* a reasoning of fewer than 10 characters, followed by a line of at most 10,
\* was returned as found
C13_Witness ==
    /\ Returned("parseAIResponse")
    /\ LET lines == TrimmedLines(fnIn.response)
       IN  /\ ReasoningAt(lines) # {}
           /\ FoundText(lines) # "" /\ Len(FoundText(lines)) < 10
           /\ \E i \in ReasoningAt(lines) : i < Len(lines) /\ lines[i + 1] # ""
           /\ LongNextLine(lines) = ""
           /\ fnOut.ret.reasoning = FoundText(lines)

\* the signals of the heuristic for the lead and offer of the harness
SeniorRole ==
    \E k \in {"ceo", "cto", "founder", "vp", "director", "head"} :
        Contains(toLowerCase(IF "role" \in DOMAIN fnIn.lead THEN fnIn.lead.role ELSE ""), k)

ManagementRole ==
    /\ ~SeniorRole
    /\ \E k \in {"manager", "lead"} :
           Contains(toLowerCase(IF "role" \in DOMAIN fnIn.lead THEN fnIn.lead.role ELSE ""), k)

IndustryMatch ==
    LET ind == toLowerCase(IF "industry" \in DOMAIN fnIn.lead
                           THEN fnIn.lead.industry ELSE "")
    IN  \E uc \in Range(fnIn.offer.ideal_use_cases) :
            Contains(ind, toLowerCase(uc)) \/ Contains(toLowerCase(uc), ind)

\* C14: fallbackClassification returns an intent High, Medium or Low and a
\* reasoning. With 2 points for a senior keyword in the role, else 1 for a
\* management keyword, plus 2 when the industry and a use case contain one
\* another, 3 points or more give High, 1 or 2 Medium and 0 Low; so High
\* needs an industry match and a role signal, and Low is exactly no signal.
C14_Fallback ==
    Returned("fallbackClassification") =>
        LET points == (IF SeniorRole THEN 2 ELSE IF ManagementRole THEN 1 ELSE 0)
                      + (IF IndustryMatch THEN 2 ELSE 0)
            ret == fnOut.ret
        IN  /\ DOMAIN ret = {"intent", "reasoning"}
            /\ ret.intent \in {"High", "Medium", "Low"}
            /\ Len(ret.reasoning) > 0
            /\ ret.intent = IF points >= 3 THEN "High"
                            ELSE IF points >= 1 THEN "Medium" ELSE "Low"
            /\ ret.intent = "High" <=> (IndustryMatch /\ (SeniorRole \/ ManagementRole))
            /\ ret.intent = "Low" <=> (~IndustryMatch /\ ~SeniorRole /\ ~ManagementRole)

\* a role with a senior and a management keyword, without an industry match,
\* was classified Medium
C14_Witness ==
    /\ Returned("fallbackClassification")
    /\ SeniorRole
    /\ Contains(toLowerCase(fnIn.lead.role), "lead")
    /\ ~IndustryMatch
    /\ fnOut.ret.intent = "Medium"

\* C16: a ScoredLead has ai_score 0 exactly when it comes from the catch
\* branch of scoreLead (details.error is there); then score = rule_score and
\* the intent is the band of rule_score on the thresholds 70 and 40, which is
\* never High.
C16_ZeroAiScore ==
    Returned("scoreLead") =>
        LET ret == fnOut.ret
        IN  /\ ret.details.ai_score = 0 <=> IsRuleOnly(ret)
            /\ IsRuleOnly(ret) =>
                   /\ ret.score = ret.details.rule_score
                   /\ ret.intent = Band(ret.details.rule_score)
                   /\ ret.intent \in {"Medium", "Low"}

\* the catch branch scored a lead with a decision-maker role and complete
\* data: 30 points, Low
C16_Witness ==
    /\ Returned("scoreLead")
    /\ IsRuleOnly(fnOut.ret)
    /\ fnOut.ret.details.ai_score = 0
    /\ fnOut.ret.score = 30
    /\ fnOut.ret.intent = "Low"

\* lead without its id
stripId(rec) == [f \in DOMAIN rec \ {"id"} |-> rec[f]]

\* request r is in scoreAllLeads
InFlight(r) == runs[r].pc \in {"scoring", "awaiting"}

\* the external service was not available to the completed run: no
\* credential, or every call failed
Unavailable ==
    /\ completed.ran
    /\ ~apiKey \/ \A k \in 1..Len(completed.answers) : completed.answers[k] = ApiError

\* C2: after a run for which the service was unavailable, every stored
\* ScoredLead is rule-only: ai_score 0, score = rule_score, the intent the band
\* of rule_score, and details.error set.
C2_RuleOnlyWhenUnavailable ==
    Unavailable =>
        \A k \in 1..Len(storage.scoredLeads) :
            LET scored == storage.scoredLeads[k]
            IN  /\ scored.details.ai_score = 0
                /\ scored.score = scored.details.rule_score
                /\ scored.intent = Band(scored.details.rule_score)
                /\ "error" \in DOMAIN scored.details

\* the ScoredLeads request r has pushed: one per lead taken, each the one
\* scoreLead gives for that lead and what its own call did
OnePerLead(r) ==
    LET run == runs[r]
    IN  /\ run.i \in 1..(Len(run.leads) + 1)
        /\ Len(run.scoredLeads) = run.i - 1
        /\ Len(run.answers) = run.i - 1
        /\ \A k \in 1..Len(run.scoredLeads) :
               run.scoredLeads[k] =
                   scoreLeadTable[run.leads[k], run.offer, apiKey,
                                  IF run.answers[k] = NoCall THEN ApiError
                                  ELSE run.answers[k]]

\* no request ends with an error; a run holds one ScoredLead per lead taken;
\* the completed run had leads and stored one ScoredLead for each
RunsWell ==
    /\ \A r \in RunIds :
           /\ runs[r].status \in {0, 200, 400}
           /\ runs[r].status = 200 => runs[r].total_leads >= 1
           /\ InFlight(r) => OnePerLead(r)
    /\ completed.ran =>
           /\ Len(completed.leads) >= 1
           /\ Len(completed.scored) = Len(completed.leads)
           /\ Len(storage.scoredLeads) = Len(completed.leads)

\* C3: when every call returns or fails, a run over a non-empty lead list
\* ends, with status 200, whatever its calls do; it never ends with an
\* error, and it holds one ScoredLead per lead taken, each of which depends
\* on that lead and its own call only.
C3_RunCompletes ==
    /\ []RunsWell
    /\ \A r \in RunIds :
           InFlight(r) ~> (runs[r].pc = "responded" /\ runs[r].status = 200)

\* a run of two leads completed although the call for its first lead failed
\* and the call for its second lead was answered
C3_Witness ==
    /\ completed.ran
    /\ Len(completed.leads) = 2
    /\ completed.answers[1] = ApiError
    /\ "text" \in DOMAIN completed.answers[2]
    /\ Len(storage.scoredLeads) = 2

\* the leads 1..n in order
UpTo(n) == [k \in 1..n |-> k]

\* the ScoredLead is that of the lead: it carries the lead's fields
ScoredFrom(scored, lead) ==
    \A f \in {"name", "role", "company", "industry", "location"} : scored[f] = lead[f]

\* C15: a run takes its leads one at a time, in upload order, and calls the
\* external service at most once for each: the calls made are for the leads
\* 1, 2, ... in this order, each once, also after a call failed; while the
\* call for a lead is open, the ScoredLeads of all leads before it, and of no
\* other, are there; without the credential no call is made.
C15_OneCallPerLead ==
    /\ \A r \in RunIds :
           InFlight(r) =>
               LET run == runs[r]
               IN  /\ run.i \in 1..(Len(run.leads) + 1)
                   /\ Len(run.scoredLeads) = run.i - 1
                   /\ \A k \in 1..Len(run.scoredLeads) :
                          ScoredFrom(run.scoredLeads[k], run.leads[k])
                   /\ \A a, b \in 1..Len(run.calls) : a < b => run.calls[a] < run.calls[b]
                   /\ run.pc = "awaiting" =>
                          (run.calls # <<>> /\ run.calls[Len(run.calls)] = run.i)
                   /\ run.pc = "scoring" => \A a \in 1..Len(run.calls) : run.calls[a] < run.i
                   /\ apiKey => run.calls = UpTo(IF run.pc = "awaiting" THEN run.i
                                                 ELSE run.i - 1)
                   /\ ~apiKey => (run.calls = <<>> /\ run.pc # "awaiting")
    /\ completed.ran =>
           /\ completed.calls = IF apiKey THEN UpTo(Len(completed.leads)) ELSE <<>>
           /\ \A k \in 1..Len(completed.leads) :
                  ScoredFrom(completed.scored[k], completed.leads[k])

\* a run of two leads completed with one call for each, the first of which
\* failed
C15_Witness ==
    /\ completed.ran
    /\ completed.calls = <<1, 2>>
    /\ completed.answers[1] = ApiError
    /\ completed.leads[1].name # completed.leads[2].name

\* C4: the stored result of the completed run is a permutation of its
\* per-lead ScoredLeads, in non-increasing order of score, and ScoredLeads of
\* equal score keep the order of their leads.
C4_SortedStable ==
    completed.ran =>
        LET n == Len(completed.scored)
            out == [k \in 1..Len(storage.scoredLeads) |-> stripId(storage.scoredLeads[k])]
        IN  /\ Len(out) = n
            /\ n = Len(completed.leads)
            /\ \A k \in 1..(n - 1) : out[k].score >= out[k + 1].score
            /\ \E pi \in [1..n -> 1..n] :
                   /\ \A a, b \in 1..n : a # b => pi[a] # pi[b]
                   /\ \A k \in 1..n : out[k] = completed.scored[pi[k]]
                   /\ \A a, b \in 1..n :
                          (a < b /\ out[a].score = out[b].score) => pi[a] < pi[b]

\* the completed run scored two different leads the same
C4_Witness ==
    /\ completed.ran
    /\ Len(storage.scoredLeads) = 2
    /\ storage.scoredLeads[1].score = storage.scoredLeads[2].score
    /\ storage.scoredLeads[1].name # storage.scoredLeads[2].name

\* C7: a POST /score that finds no offer or no leads is answered 400 and
\* changes nothing: the store is as before and scoreAllLeads is not entered.
C7_Preconditions ==
    [][\A r \in RunIds :
           ( /\ runs[r].pc = "idle" /\ runs'[r].pc # "idle"
             /\ storage.offer = NoOffer \/ Len(storage.leads) = 0 ) =>
               /\ runs'[r] = Responded(400, 0)
               /\ storage' = storage
               /\ completed' = completed]_vars

\* a POST /score was answered 400 while an offer was stored
C7_Witness ==
    \E r \in RunIds :
        /\ runs[r].pc = "responded" /\ runs[r].status = 400
        /\ storage.offer # NoOffer

\* C8: the stored scored leads are those of the most recently completed run
\* and nothing else: none before a run completed, and afterwards as many as
\* that run had leads, numbered from 1, the same ScoredLeads that run made.
C8_LastRunOnly ==
    IF ~completed.ran THEN storage.scoredLeads = <<>>
    ELSE LET stored == storage.scoredLeads
             n == Len(completed.leads)
         IN  /\ Len(stored) = n
             /\ \A k \in 1..Len(stored) : stored[k].id = k
             /\ \A x \in Range(completed.scored) :
                    Cardinality({k \in 1..Len(stored) : stripId(stored[k]) = x})
                        = Cardinality({k \in 1..n : completed.scored[k] = x})

\* a run of one lead completed after a run of two leads had
C8_Witness ==
    /\ runs[1].status = 200 /\ runs[1].total_leads = 2
    /\ runs[2].status = 200 /\ runs[2].total_leads = 1
    /\ Len(storage.scoredLeads) = 1

\* the sorted output of a run over these leads for this offer, its calls
\* having done what answers says
OutputOf(leads, offer, answers) ==
    sortByScore([k \in 1..Len(leads) |->
                    scoreLeadTable[leads[k], offer, apiKey,
                                   IF answers[k] = NoCall THEN ApiError ELSE answers[k]]])

\* C17: with runs, offer creations and lead uploads interleaved, a run works
\* on the offer and lead list the store held when it started, and keeps them;
\* and whenever the stored scored leads change, they become the complete
\* sorted output of the one run that ends in this step, for the offer and
\* all leads that run read, whatever the store holds by then.
C17_OneRunsOutput ==
    [][/\ \A r \in RunIds :
              /\ (runs[r].pc = "idle" /\ InFlight(r)') =>
                     /\ runs'[r].offer = storage.offer
                     /\ runs'[r].leads = storage.leads
              /\ (InFlight(r) /\ InFlight(r)') =>
                     /\ runs'[r].offer = runs[r].offer
                     /\ runs'[r].leads = runs[r].leads
       /\ storage'.scoredLeads # storage.scoredLeads =>
              \E r \in RunIds :
                  /\ InFlight(r) /\ runs'[r].pc = "responded"
                  /\ \A q \in RunIds \ {r} : runs'[q] = runs[q]
                  /\ Len(storage'.scoredLeads) = Len(runs[r].leads)
                  /\ [k \in 1..Len(storage'.scoredLeads) |->
                         stripId(storage'.scoredLeads[k])]
                       = OutputOf(runs[r].leads, runs[r].offer, runs[r].answers)]_vars

\* a run completed and stored its output after the lead list it had read was
\* replaced, while a second run, which read the new list, is under way
C17_Witness ==
    /\ completed.ran
    /\ completed.leads # storage.leads
    /\ Len(storage.scoredLeads) = Len(completed.leads)
    /\ \E r \in RunIds : InFlight(r) /\ runs[r].leads = storage.leads
                                      /\ runs[r].scoredLeads # <<>>

====
